---- MODULE Spec2Model ----
(***************************************************************************)
(* Model of libusb/hotplug.c: the hotplug callback registry of a libusbx   *)
(* context, the matcher usbi_hotplug_match_cb, the dispatch pass           *)
(* usbi_hotplug_match, libusb_hotplug_register_callback and                *)
(* libusb_hotplug_deregister_callback, run by several threads.             *)
(*                                                                         *)
(* Every thread owns a call stack of frames.  A frame is one activation of *)
(* a library function; its pc is the place where the activation waits: at  *)
(* a mutex, or inside a user callback.  Code between two such places       *)
(* touches shared state only under a mutex and is one atomic step.         *)
(***************************************************************************)
EXTENDS Integers, Sequences, FiniteSets, TLC

\* ------------------------------------------------------------------ bounds
\* callbacks that calloc can hand out before it reports LIBUSB_ERROR_NO_MEM
MaxEntries == 2
\* library activations one thread nests (a callback calling back into the library)
MaxDepth == 2
\* device handles the application opens
MaxOpen == 3
\* callbacks calloc hands out where the order of the list is examined
MaxOrder == 3

\* --------------------------------------------------------- program constants
LIBUSB_HOTPLUG_EVENT_DEVICE_ARRIVED == 1
LIBUSB_HOTPLUG_EVENT_DEVICE_LEFT == 2
LIBUSB_HOTPLUG_ENUMERATE == 1
LIBUSB_HOTPLUG_MATCH_ANY == -1

Threads == {"ev", "app"}
\* the threads the backend reports device transitions on
Dispatchers == {"ev"}
\* the threads of the application
Applications == {"app"}
usbi_default_context == "default"
Contexts == {usbi_default_context, "ctx2"}

\* libusb_device: its descriptor fields and its context (dev->ctx)
Devices == {"d1", "d2"}
device_descriptor(dev) ==
    IF dev = "d1" THEN [idVendor |-> 1, idProduct |-> 1, bDeviceClass |-> 1]
    ELSE [idVendor |-> 1, idProduct |-> 2, bDeviceClass |-> 9]
dev_ctx(dev) == usbi_default_context

\* --------------------------------------------------------------- C integers
\* a & b for 0 <= a, b < 2^31, bit by bit
RECURSIVE BitAndN(_, _, _)
BitAndN(a, b, n) ==
    IF n = 0 THEN 0
    ELSE (a % 2) * (b % 2) + 2 * BitAndN(a \div 2, b \div 2, n - 1)
\* the low 31 bits of a 32-bit two's complement int
Low31(x) == IF x < 0 THEN (x + 2147483647) + 1 ELSE x
\* (a & b) != 0 for 32-bit ints: the sign bits, then the other 31
AndNonZero(a, b) == (a < 0 /\ b < 0) \/ BitAndN(Low31(a), Low31(b), 31) # 0
\* ~m for a 32-bit int
BitNot(m) == (0 - m) - 1

\* USBI_GET_CONTEXT: a NULL context stands for the default context
USBI_GET_CONTEXT(ctx) == IF ctx = "NULL" THEN usbi_default_context ELSE ctx

VARIABLES
    has_hotplug,      \* libusb_has_capability(LIBUSB_CAP_HAS_HOTPLUG)
    heap,             \* the libusb_hotplug_callback objects calloc returned, by id
    freed,            \* ids passed to free()
    hotplug_cbs,      \* per context: the list ctx->hotplug_cbs, head first
    handle_id,        \* the function-static counter of register
    usb_devs,         \* per context: the device list ctx->usb_devs
    open_devs,        \* the open device handles: [dev, disconnected], by handle
    lock,             \* owner of each mutex, "none" when free
    stack,            \* per thread: its frames, innermost last
    detached,         \* history: ids whose callback has returned non-zero
    deregistered      \* history: ids a returned deregister call named by handle

vars == <<has_hotplug, heap, freed, hotplug_cbs, handle_id, usb_devs, open_devs,
          lock, stack, detached, deregistered>>

\* ------------------------------------------------------------------ mutexes
hotplug_cbs_lock(ctx) == <<"hotplug_cbs_lock", ctx>>
usb_devs_lock(ctx) == <<"usb_devs_lock", ctx>>
open_devs_lock(ctx) == <<"open_devs_lock", ctx>>
Locks ==
    {hotplug_cbs_lock(c) : c \in Contexts} \cup {usb_devs_lock(c) : c \in Contexts}
        \cup {open_devs_lock(c) : c \in Contexts}

\* ------------------------------------------------------------------- frames
NoArgs ==
    [ctx |-> "NULL", events |-> 0, flags |-> 0, vendor_id |-> 0, product_id |-> 0,
     dev_class |-> 0, cb_fn |-> FALSE, handle |-> FALSE]

\* An activation.  op: the function; pc: where it waits; ctx: its context; args: the
\* arguments of register; h: the handle argument of deregister, the loaded handle_id
\* of register; dev, event: the arguments of the matcher; cur, next: hotplug_cb and
\* next of usbi_hotplug_match, new_callback of register; ret: the matcher's result;
\* todo: the devices the replay has not reached; code: the value register is about
\* to return.  History, read by the properties only: reg0, the registry when the
\* pass took the lock; pre, its entries for which deregister had then returned; det,
\* the entries whose callback had returned non-zero when the pass was called; devs,
\* the device list when the replay took its lock; inv, the <<entry, device, event>>
\* callback invocations this activation made; vis, the entries the pass has run the
\* matcher on, in order.
Frame(op, pc, ctx) ==
    [op |-> op, pc |-> pc, ctx |-> ctx, args |-> NoArgs, h |-> 0, dev |-> "none",
     event |-> 0, cur |-> 0, next |-> 0, ret |-> 0, todo |-> <<>>, code |-> "none",
     reg0 |-> <<>>, pre |-> {}, det |-> {}, devs |-> <<>>, inv |-> <<>>, vis |-> <<>>]

Top(t) == stack[t][Len(stack[t])]
Idle(t) == stack[t] = <<>>
\* the thread is inside a user callback
InCallback(t) == ~Idle(t) /\ Top(t).pc \in {"cb", "enum_cb"}
\* the thread may enter the library: from outside it, or from inside a callback
MayCall(t) == Idle(t) \/ (InCallback(t) /\ Len(stack[t]) < MaxDepth)
\* an application thread, or the backend's thread inside a callback
AppCode(t) == t \in Applications \/ InCallback(t)
Push(t, f) == [stack EXCEPT ![t] = Append(@, f)]
Pop(t) == [stack EXCEPT ![t] = SubSeq(@, 1, Len(@) - 1)]
SetTop(t, f) == [stack EXCEPT ![t] = [@ EXCEPT ![Len(@)] = f]]

Init ==
    /\ has_hotplug \in BOOLEAN
    /\ heap = <<>>
    /\ freed = {}
    /\ hotplug_cbs = [c \in Contexts |-> <<>>]
    /\ handle_id = 1
    /\ usb_devs = [c \in Contexts |-> <<>>]
    /\ open_devs = <<>>
    /\ lock = [l \in Locks |-> "none"]
    /\ stack = [t \in Threads |-> <<>>]
    /\ detached = {}
    /\ deregistered = {}

\* ----------------------------------------------------------- the entry list
\* list_add_tail(entry, head): the entry is linked in front of the list head, at the
\* end of the list
list_add_tail(e, list) == list \o <<e>>
\* list_add(entry, head): the entry is linked directly behind the list head
list_add(e, list) == <<e>> \o list
\* list_del(entry)
list_del(e, list) == SelectSeq(list, LAMBDA x : x # e)
InList(e, list) == \E i \in 1..Len(list) : list[i] = e
\* head->next: the first entry, 0 for the head itself (an empty list)
FirstEntry(list) == IF list = <<>> THEN 0 ELSE list[1]
\* a cursor that steps over the entry behind e
NextEntry_Skip(e, list) ==
    IF \E i \in 1..Len(list) - 2 : list[i] = e
    THEN list[(CHOOSE i \in 1..Len(list) - 2 : list[i] = e) + 2]
    ELSE 0
\* pos->next: the entry behind e, 0 for the head
NextEntry(e, list) ==
    IF \E i \in 1..Len(list) - 1 : list[i] = e
    THEN list[(CHOOSE i \in 1..Len(list) - 1 : list[i] = e) + 1]
    ELSE 0
SeqToSet(s) == {s[i] : i \in 1..Len(s)}

\* -------------------------------------------------------------- the matcher
\* a matcher that compares the product filter with the vendor of the device
usbi_hotplug_match_cb_WrongField(dev, event, hotplug_cb) ==
    IF hotplug_cb.needs_free # 0 THEN "free"
    ELSE IF ~AndNonZero(hotplug_cb.events, event) THEN "nomatch"
    ELSE IF LIBUSB_HOTPLUG_MATCH_ANY # hotplug_cb.vendor_id
            /\ hotplug_cb.vendor_id # device_descriptor(dev).idVendor THEN "nomatch"
    ELSE IF LIBUSB_HOTPLUG_MATCH_ANY # hotplug_cb.product_id
            /\ hotplug_cb.product_id # device_descriptor(dev).idVendor THEN "nomatch"
    ELSE IF LIBUSB_HOTPLUG_MATCH_ANY # hotplug_cb.dev_class
            /\ hotplug_cb.dev_class # device_descriptor(dev).bDeviceClass THEN "nomatch"
    ELSE "invoke"
\* a matcher without the lazy deregistration test
usbi_hotplug_match_cb_NoLazyFree(dev, event, hotplug_cb) ==
    IF ~AndNonZero(hotplug_cb.events, event) THEN "nomatch"
    ELSE IF LIBUSB_HOTPLUG_MATCH_ANY # hotplug_cb.vendor_id
            /\ hotplug_cb.vendor_id # device_descriptor(dev).idVendor THEN "nomatch"
    ELSE IF LIBUSB_HOTPLUG_MATCH_ANY # hotplug_cb.product_id
            /\ hotplug_cb.product_id # device_descriptor(dev).idProduct THEN "nomatch"
    ELSE IF LIBUSB_HOTPLUG_MATCH_ANY # hotplug_cb.dev_class
            /\ hotplug_cb.dev_class # device_descriptor(dev).bDeviceClass THEN "nomatch"
    ELSE "invoke"
\* usbi_hotplug_match_cb up to the call of the user callback: "free" is return 1 for
\* an entry marked needs_free, "nomatch" is return 0, "invoke" is the call of
\* hotplug_cb->cb, whose return value becomes the matcher's
usbi_hotplug_match_cb(dev, event, hotplug_cb) ==
    IF hotplug_cb.needs_free # 0 THEN "free"
    ELSE IF ~AndNonZero(hotplug_cb.events, event) THEN "nomatch"
    ELSE IF LIBUSB_HOTPLUG_MATCH_ANY # hotplug_cb.vendor_id
            /\ hotplug_cb.vendor_id # device_descriptor(dev).idVendor THEN "nomatch"
    ELSE IF LIBUSB_HOTPLUG_MATCH_ANY # hotplug_cb.product_id
            /\ hotplug_cb.product_id # device_descriptor(dev).idProduct THEN "nomatch"
    ELSE IF LIBUSB_HOTPLUG_MATCH_ANY # hotplug_cb.dev_class
            /\ hotplug_cb.dev_class # device_descriptor(dev).bDeviceClass THEN "nomatch"
    ELSE "invoke"

\* the context argument the callback receives: NULL for the default context
CallbackCtx(ctx) == IF ctx = usbi_default_context THEN "NULL" ELSE ctx

\* ----------------------------------------------------------------- register
\* a check that tests the class against the 16-bit mask of the ids
InsaneValues_ClassMask(a) ==
    \/ (LIBUSB_HOTPLUG_MATCH_ANY # a.vendor_id /\ AndNonZero(BitNot(65535), a.vendor_id))
    \/ (LIBUSB_HOTPLUG_MATCH_ANY # a.product_id /\ AndNonZero(BitNot(65535), a.product_id))
    \/ (LIBUSB_HOTPLUG_MATCH_ANY # a.dev_class /\ AndNonZero(BitNot(65535), a.dev_class))
    \/ ~a.cb_fn
\* the check for sane values of libusb_hotplug_register_callback
InsaneValues(a) ==
    \/ (LIBUSB_HOTPLUG_MATCH_ANY # a.vendor_id /\ AndNonZero(BitNot(65535), a.vendor_id))
    \/ (LIBUSB_HOTPLUG_MATCH_ANY # a.product_id /\ AndNonZero(BitNot(65535), a.product_id))
    \/ (LIBUSB_HOTPLUG_MATCH_ANY # a.dev_class /\ AndNonZero(BitNot(255), a.dev_class))
    \/ ~a.cb_fn

\* the object calloc returns, after the assignments to its fields
NewCallback(ctx, a) ==
    [ctx |-> ctx, vendor_id |-> a.vendor_id, product_id |-> a.product_id,
     dev_class |-> a.dev_class, flags |-> a.flags, events |-> a.events,
     cb |-> a.cb_fn, needs_free |-> 0, handle |-> 0]

\* libusb_hotplug_register_callback from its entry to usbi_mutex_lock: the capability
\* check, the check of the values, calloc (mem: whether it succeeds, which it does for
\* at most max objects) and the fields.
\* An activation that fails waits at "ret" with its error code.
RegisterCallUpTo(t, a, mem, max) ==
    /\ MayCall(t)
    /\ mem => Len(heap) < max
    /\ LET f == [Frame("register", "ret", USBI_GET_CONTEXT(a.ctx)) EXCEPT !.args = a] IN
       IF ~has_hotplug
       THEN /\ stack' = Push(t, [f EXCEPT !.code = "LIBUSB_ERROR_NOT_SUPPORTED"])
            /\ UNCHANGED heap
       ELSE IF InsaneValues(a)
       THEN /\ stack' = Push(t, [f EXCEPT !.code = "LIBUSB_ERROR_INVALID_PARAM"])
            /\ UNCHANGED heap
       ELSE IF ~mem
       THEN /\ stack' = Push(t, [f EXCEPT !.code = "LIBUSB_ERROR_NO_MEM"])
            /\ UNCHANGED heap
       ELSE /\ heap' = Append(heap, NewCallback(USBI_GET_CONTEXT(a.ctx), a))
            /\ stack' = Push(t, [f EXCEPT !.pc = "lock", !.cur = Len(heap) + 1])
    /\ UNCHANGED <<has_hotplug, freed, hotplug_cbs, handle_id, usb_devs, open_devs,
                   lock, detached, deregistered>>

\* the call with calloc handing out at most MaxEntries objects
RegisterCall(t, a, mem) == RegisterCallUpTo(t, a, mem, MaxEntries)

\* usbi_mutex_lock(&ctx->hotplug_cbs_lock) and the read of handle_id in handle_id++
RegisterLock(t) ==
    /\ ~Idle(t)
    /\ Top(t).op = "register" /\ Top(t).pc = "lock"
    /\ lock[hotplug_cbs_lock(Top(t).ctx)] = "none"
    /\ lock' = [lock EXCEPT ![hotplug_cbs_lock(Top(t).ctx)] = t]
    /\ stack' = SetTop(t, [Top(t) EXCEPT !.pc = "store", !.h = handle_id])
    /\ UNCHANGED <<has_hotplug, heap, freed, hotplug_cbs, handle_id, usb_devs,
                   open_devs, detached, deregistered>>

\* a replay that ends at the first device the filter rejects
EnumSkip_Break(todo, hotplug_cb) ==
    IF todo = <<>> THEN <<>>
    ELSE IF usbi_hotplug_match_cb(todo[1], LIBUSB_HOTPLUG_EVENT_DEVICE_ARRIVED,
                                  hotplug_cb) = "invoke"
    THEN todo
    ELSE <<>>
\* the devices of todo from the first one for which the matcher calls the callback
RECURSIVE EnumSkip(_, _)
EnumSkip(todo, hotplug_cb) ==
    IF todo = <<>> THEN <<>>
    ELSE IF usbi_hotplug_match_cb(todo[1], LIBUSB_HOTPLUG_EVENT_DEVICE_ARRIVED,
                                  hotplug_cb) = "invoke"
    THEN todo
    ELSE EnumSkip(Tail(todo), hotplug_cb)

\* a replay that ends without usbi_mutex_unlock(&ctx->usb_devs_lock)
EnumLoop_KeepDevsLock(t, f, todo) ==
    LET rest == EnumSkip(todo, heap[f.cur]) IN
    IF rest = <<>>
    THEN /\ stack' = SetTop(t, [f EXCEPT !.pc = "ret", !.todo = <<>>,
                                   !.code = "LIBUSB_SUCCESS"])
         /\ lock' = [lock EXCEPT ![usb_devs_lock(f.ctx)] = t,
                                 ![hotplug_cbs_lock(f.ctx)] = "none"]
    ELSE /\ stack' = SetTop(t, [f EXCEPT !.pc = "enum_cb", !.dev = rest[1],
                                   !.event = LIBUSB_HOTPLUG_EVENT_DEVICE_ARRIVED,
                                   !.todo = Tail(rest),
                                   !.inv = Append(@, <<f.cur, rest[1],
                                       LIBUSB_HOTPLUG_EVENT_DEVICE_ARRIVED>>)])
         /\ lock' = [lock EXCEPT ![usb_devs_lock(f.ctx)] = t]
\* the replay loop of register from device list todo on, the mutexes held: it runs to
\* the next call of the callback, or to its end, where both mutexes are released
EnumLoop(t, f, todo) ==
    LET rest == EnumSkip(todo, heap[f.cur]) IN
    IF rest = <<>>
    THEN /\ stack' = SetTop(t, [f EXCEPT !.pc = "ret", !.todo = <<>>,
                                   !.code = "LIBUSB_SUCCESS"])
         /\ lock' = [lock EXCEPT ![usb_devs_lock(f.ctx)] = "none",
                                 ![hotplug_cbs_lock(f.ctx)] = "none"]
    ELSE /\ stack' = SetTop(t, [f EXCEPT !.pc = "enum_cb", !.dev = rest[1],
                                   !.event = LIBUSB_HOTPLUG_EVENT_DEVICE_ARRIVED,
                                   !.todo = Tail(rest),
                                   !.inv = Append(@, <<f.cur, rest[1],
                                       LIBUSB_HOTPLUG_EVENT_DEVICE_ARRIVED>>)])
         /\ lock' = [lock EXCEPT ![usb_devs_lock(f.ctx)] = t]

\* the write of handle_id++, new_callback->handle, list_add, and without the
\* enumerate flag usbi_mutex_unlock
RegisterAdd(t) ==
    /\ ~Idle(t)
    /\ Top(t).op = "register" /\ Top(t).pc = "store"
    /\ handle_id' = Top(t).h + 1
    /\ heap' = [heap EXCEPT ![Top(t).cur].handle = Top(t).h]
    /\ hotplug_cbs' = [hotplug_cbs EXCEPT ![Top(t).ctx] = list_add(Top(t).cur, @)]
    /\ IF AndNonZero(Top(t).args.flags, LIBUSB_HOTPLUG_ENUMERATE)
       THEN /\ stack' = SetTop(t, [Top(t) EXCEPT !.pc = "enum_lock"])
            /\ UNCHANGED lock
       ELSE /\ stack' = SetTop(t, [Top(t) EXCEPT !.pc = "ret", !.code = "LIBUSB_SUCCESS"])
            /\ lock' = [lock EXCEPT ![hotplug_cbs_lock(Top(t).ctx)] = "none"]
    /\ UNCHANGED <<has_hotplug, freed, usb_devs, open_devs, detached, deregistered>>

\* usbi_mutex_lock(&ctx->usb_devs_lock) and the replay up to the first callback
RegisterEnumLock(t) ==
    /\ ~Idle(t)
    /\ Top(t).op = "register" /\ Top(t).pc = "enum_lock"
    /\ lock[usb_devs_lock(Top(t).ctx)] = "none"
    /\ EnumLoop(t, [Top(t) EXCEPT !.devs = usb_devs[Top(t).ctx]], usb_devs[Top(t).ctx])
    /\ UNCHANGED <<has_hotplug, heap, freed, hotplug_cbs, handle_id, usb_devs,
                   open_devs, detached, deregistered>>

\* what *handle = new_callback->handle stores, the mutex released: the handle of the
\* object, or anything ("garbage") when the object has been freed by then
HandleOut(f) ==
    IF f.code # "LIBUSB_SUCCESS" \/ ~f.args.handle THEN "unset"
    ELSE IF f.cur \in freed THEN "garbage"
    ELSE heap[f.cur].handle

\* the return of register
RegisterReturn(t) ==
    /\ ~Idle(t)
    /\ Top(t).op = "register" /\ Top(t).pc = "ret"
    /\ stack' = Pop(t)
    /\ UNCHANGED <<has_hotplug, heap, freed, hotplug_cbs, handle_id, usb_devs,
                   open_devs, lock, detached, deregistered>>

\* --------------------------------------------------------------- deregister
\* a loop without the comparison of the handles: every entry of the list is marked
MarkForDeregistration_All(h, handle, list) ==
    [e \in DOMAIN h |->
        IF InList(e, list) THEN [h[e] EXCEPT !.needs_free = 1] ELSE h[e]]
\* the loop of deregister: every entry of the list with this handle is marked
MarkForDeregistration(h, handle, list) ==
    [e \in DOMAIN h |->
        IF InList(e, list) /\ h[e].handle = handle
        THEN [h[e] EXCEPT !.needs_free = 1] ELSE h[e]]

\* usbi_mutex_lock, the loop over ctx->hotplug_cbs and usbi_mutex_unlock of deregister
DeregisterLocked(ctx, handle) ==
    /\ heap' = MarkForDeregistration(heap, handle, hotplug_cbs[ctx])
    /\ deregistered' = deregistered \cup
           {e \in SeqToSet(hotplug_cbs[ctx]) : heap[e].handle = handle}

\* libusb_hotplug_deregister_callback.  The capability check touches nothing another
\* thread writes, so a call that finds the mutex free runs to its return in the same
\* step; a call that finds the mutex taken waits at "lock".
DeregisterCall(t, ctx, handle) ==
    /\ MayCall(t)
    /\ IF ~has_hotplug
       THEN UNCHANGED <<stack, heap, deregistered>>
       ELSE IF lock[hotplug_cbs_lock(USBI_GET_CONTEXT(ctx))] = "none"
       THEN /\ DeregisterLocked(USBI_GET_CONTEXT(ctx), handle)
            /\ UNCHANGED stack
       ELSE /\ stack' = Push(t, [Frame("deregister", "lock", USBI_GET_CONTEXT(ctx))
                                    EXCEPT !.h = handle])
            /\ UNCHANGED <<heap, deregistered>>
    /\ UNCHANGED <<has_hotplug, freed, hotplug_cbs, handle_id, usb_devs, open_devs,
                   lock, detached>>

\* a deregister call that waited: usbi_mutex_lock, the loop, usbi_mutex_unlock and the
\* return
DeregisterLock(t) ==
    /\ ~Idle(t)
    /\ Top(t).op = "deregister" /\ Top(t).pc = "lock"
    /\ lock[hotplug_cbs_lock(Top(t).ctx)] = "none"
    /\ DeregisterLocked(Top(t).ctx, Top(t).h)
    /\ stack' = Pop(t)
    /\ UNCHANGED <<has_hotplug, freed, hotplug_cbs, handle_id, usb_devs, open_devs,
                   lock, detached>>

\* ----------------------------------------------------------------- dispatch
\* The backend reports a transition of dev: the device enters or leaves ctx->usb_devs
\* under usb_devs_lock, and usbi_hotplug_match(dev, event) is called.
BackendTransition(dev, event, devs) ==
    IF event = LIBUSB_HOTPLUG_EVENT_DEVICE_ARRIVED
    THEN Append(devs, dev)
    ELSE SelectSeq(devs, LAMBDA d : d # dev)

\* a dispatch that disconnects the open handles of a device that left before it walks
\* the registry
MatchCall_DisconnectFirst(t, dev, event) ==
    /\ Idle(t)
    /\ lock[usb_devs_lock(dev_ctx(dev))] = "none"
    /\ (event = LIBUSB_HOTPLUG_EVENT_DEVICE_ARRIVED) =
           (dev \notin SeqToSet(usb_devs[dev_ctx(dev)]))
    /\ usb_devs' = [usb_devs EXCEPT ![dev_ctx(dev)] = BackendTransition(dev, event, @)]
    /\ stack' = Push(t, [Frame("match", "lock", dev_ctx(dev))
                            EXCEPT !.dev = dev, !.event = event, !.det = detached])
    /\ open_devs' = IF event = LIBUSB_HOTPLUG_EVENT_DEVICE_LEFT
                    THEN [i \in DOMAIN open_devs |->
                             IF open_devs[i].dev = dev
                             THEN [open_devs[i] EXCEPT !.disconnected = TRUE]
                             ELSE open_devs[i]]
                    ELSE open_devs
    /\ UNCHANGED <<has_hotplug, heap, freed, hotplug_cbs, handle_id, lock,
                   detached, deregistered>>
\* the call of usbi_hotplug_match(dev, event), the device list updated by the backend
MatchCall(t, dev, event) ==
    /\ Idle(t)
    /\ lock[usb_devs_lock(dev_ctx(dev))] = "none"
    /\ (event = LIBUSB_HOTPLUG_EVENT_DEVICE_ARRIVED) =
           (dev \notin SeqToSet(usb_devs[dev_ctx(dev)]))
    /\ usb_devs' = [usb_devs EXCEPT ![dev_ctx(dev)] = BackendTransition(dev, event, @)]
    /\ stack' = Push(t, [Frame("match", "lock", dev_ctx(dev))
                            EXCEPT !.dev = dev, !.event = event, !.det = detached])
    /\ UNCHANGED <<has_hotplug, heap, freed, hotplug_cbs, handle_id, open_devs, lock,
                   detached, deregistered>>

\* One turn of list_for_each_entry_safe in usbi_hotplug_match, entered with the mutex
\* held and f.cur, f.next set: the loop test, usbi_mutex_unlock, and the matcher up to
\* the call of the callback.  h is the heap the matcher reads.  An entry that has been
\* freed is read all the same: the behaviour is undefined, and the pass either goes on
\* with what the memory still holds or ends at "uaf" (any other outcome).
MatchLoop(t, f, h) ==
    IF f.cur = 0
    THEN stack' = SetTop(t, [f EXCEPT !.pc = "left"])
    ELSE LET m == usbi_hotplug_match_cb(f.dev, f.event, h[f.cur])
             g == [f EXCEPT !.vis = Append(@, f.cur)]
         IN
         \/ /\ f.cur \in freed
            /\ stack' = SetTop(t, [g EXCEPT !.pc = "uaf"])
         \/ IF m = "invoke"
            THEN stack' = SetTop(t, [g EXCEPT !.pc = "cb",
                                        !.inv = Append(@, <<f.cur, f.dev, f.event>>)])
            ELSE stack' = SetTop(t, [g EXCEPT !.pc = "relock",
                                        !.ret = IF m = "free" THEN 1 ELSE 0])

\* usbi_mutex_lock(&ctx->hotplug_cbs_lock) at the head of usbi_hotplug_match and the
\* first turn of the loop
MatchLock(t) ==
    /\ ~Idle(t)
    /\ Top(t).op = "match" /\ Top(t).pc = "lock"
    /\ lock[hotplug_cbs_lock(Top(t).ctx)] = "none"
    /\ LET list == hotplug_cbs[Top(t).ctx] IN
       MatchLoop(t, [Top(t) EXCEPT !.cur = FirstEntry(list),
                                   !.next = NextEntry(FirstEntry(list), list),
                                   !.reg0 = list,
                                   !.pre = SeqToSet(list) \cap deregistered], heap)
    /\ UNCHANGED <<has_hotplug, heap, freed, hotplug_cbs, handle_id, usb_devs,
                   open_devs, lock, detached, deregistered>>

\* the loop written with list_for_each_entry: the step to the next entry reads
\* hotplug_cb->list.next after the entry may have been freed
MatchRelock_NotSafe(t) ==
    /\ ~Idle(t)
    /\ Top(t).op = "match" /\ Top(t).pc = "relock"
    /\ lock[hotplug_cbs_lock(Top(t).ctx)] = "none"
    /\ LET f == Top(t)
           list == IF f.ret # 0 THEN list_del(f.cur, hotplug_cbs[f.ctx])
                   ELSE hotplug_cbs[f.ctx]
       IN /\ hotplug_cbs' = [hotplug_cbs EXCEPT ![f.ctx] = list]
          /\ freed' = IF f.ret # 0 THEN freed \cup {f.cur} ELSE freed
          /\ IF f.ret # 0
             THEN stack' = SetTop(t, [f EXCEPT !.pc = "uaf"])
             ELSE MatchLoop(t, [f EXCEPT !.cur = NextEntry(f.cur, list),
                                         !.next = 0, !.ret = 0], heap)
    /\ UNCHANGED <<has_hotplug, heap, handle_id, usb_devs, open_devs, lock, detached,
                   deregistered>>
\* usbi_mutex_lock after the matcher returned, list_del and free when it returned
\* non-zero, the step to the pre-fetched next entry and the next turn of the loop.
\* list_del and free of an entry that is freed already are undefined: the pass goes on
\* as if they had no effect, or ends at "uaf".
MatchRelock(t) ==
    /\ ~Idle(t)
    /\ Top(t).op = "match" /\ Top(t).pc = "relock"
    /\ lock[hotplug_cbs_lock(Top(t).ctx)] = "none"
    /\ LET f == Top(t)
           list == IF f.ret # 0 THEN list_del(f.cur, hotplug_cbs[f.ctx])
                   ELSE hotplug_cbs[f.ctx]
       IN \/ /\ f.ret # 0 /\ f.cur \in freed
             /\ stack' = SetTop(t, [f EXCEPT !.pc = "uaf"])
             /\ UNCHANGED <<hotplug_cbs, freed>>
          \/ /\ hotplug_cbs' = [hotplug_cbs EXCEPT ![f.ctx] = list]
             /\ freed' = IF f.ret # 0 THEN freed \cup {f.cur} ELSE freed
             /\ MatchLoop(t, [f EXCEPT !.cur = f.next,
                                       !.next = NextEntry(f.next, list),
                                       !.ret = 0], heap)
    /\ UNCHANGED <<has_hotplug, heap, handle_id, usb_devs, open_devs, lock, detached,
                   deregistered>>

\* usbi_handle_disconnect(handle)
usbi_handle_disconnect(handle) == [handle EXCEPT !.disconnected = TRUE]

\* a loop that leaves at the first handle of the device
DisconnectHandles_FirstOnly(dev, handles) ==
    [i \in DOMAIN handles |->
        IF dev = handles[i].dev /\ \A j \in 1..i - 1 : handles[j].dev # dev
        THEN usbi_handle_disconnect(handles[i]) ELSE handles[i]]
\* the loop over ctx->open_devs of usbi_hotplug_match
DisconnectHandles(dev, handles) ==
    [i \in DOMAIN handles |->
        IF dev = handles[i].dev THEN usbi_handle_disconnect(handles[i]) ELSE handles[i]]

\* the end of usbi_hotplug_match: for a LEFT event the open handles of the device are
\* disconnected under open_devs_lock; the return
MatchLeft(t) ==
    /\ ~Idle(t)
    /\ Top(t).op = "match" /\ Top(t).pc = "left"
    /\ IF LIBUSB_HOTPLUG_EVENT_DEVICE_LEFT = Top(t).event
       THEN /\ lock[open_devs_lock(Top(t).ctx)] = "none"
            /\ open_devs' = DisconnectHandles(Top(t).dev, open_devs)
       ELSE UNCHANGED open_devs
    /\ stack' = Pop(t)
    /\ UNCHANGED <<has_hotplug, heap, freed, hotplug_cbs, handle_id, usb_devs, lock,
                   detached, deregistered>>

\* ---------------------------------------------------------------- callbacks
\* The user callback returns r.  In the dispatch pass r is the matcher's result; in
\* the replay of register the result is cast to void and the loop goes on.
CallbackReturn(t, r) ==
    /\ InCallback(t)
    /\ detached' = IF r # 0 THEN detached \cup {Top(t).cur} ELSE detached
    /\ IF Top(t).pc = "cb"
       THEN /\ stack' = SetTop(t, [Top(t) EXCEPT !.pc = "relock", !.ret = r])
            /\ UNCHANGED lock
       ELSE EnumLoop(t, Top(t), Top(t).todo)
    /\ UNCHANGED <<has_hotplug, heap, freed, hotplug_cbs, handle_id, usb_devs,
                   open_devs, deregistered>>

\* ------------------------------------------------------------- open handles
\* libusb_open(dev): a new handle of the device enters ctx->open_devs
Open(t, dev) ==
    /\ MayCall(t)
    /\ Len(open_devs) < MaxOpen
    /\ dev \in SeqToSet(usb_devs[dev_ctx(dev)])
    /\ lock[open_devs_lock(dev_ctx(dev))] = "none"
    /\ open_devs' = Append(open_devs, [dev |-> dev, disconnected |-> FALSE])
    /\ UNCHANGED <<has_hotplug, heap, freed, hotplug_cbs, handle_id, usb_devs, lock,
                   stack, detached, deregistered>>

\* ------------------------------------------------------------ specifications
Events == {LIBUSB_HOTPLUG_EVENT_DEVICE_ARRIVED, LIBUSB_HOTPLUG_EVENT_DEVICE_LEFT}

\* the devices the backend reports, and the registrations the application makes
SpecDevices == {"d1"}
RegArgs ==
    {[ctx |-> "NULL", events |-> 3, flags |-> 0, vendor_id |-> LIBUSB_HOTPLUG_MATCH_ANY,
      product_id |-> LIBUSB_HOTPLUG_MATCH_ANY, dev_class |-> LIBUSB_HOTPLUG_MATCH_ANY,
      cb_fn |-> TRUE, handle |-> TRUE],
     [ctx |-> "NULL", events |-> 1, flags |-> LIBUSB_HOTPLUG_ENUMERATE, vendor_id |-> 1,
      product_id |-> LIBUSB_HOTPLUG_MATCH_ANY, dev_class |-> LIBUSB_HOTPLUG_MATCH_ANY,
      cb_fn |-> TRUE, handle |-> TRUE]}

Next ==
    \E t \in Threads :
        \/ \E a \in RegArgs : AppCode(t) /\ RegisterCall(t, a, TRUE)
        \/ RegisterLock(t)
        \/ RegisterAdd(t)
        \/ RegisterEnumLock(t)
        \/ RegisterReturn(t)
        \/ \E h \in 1..MaxEntries : AppCode(t) /\ DeregisterCall(t, "NULL", h)
        \/ DeregisterLock(t)
        \/ \E d \in SpecDevices, e \in Events : t \in Dispatchers /\ MatchCall(t, d, e)
        \/ MatchLock(t)
        \/ MatchRelock(t)
        \/ MatchLeft(t)
        \/ \E r \in {0, 1} : CallbackReturn(t, r)

Spec == Init /\ [][Next]_vars

\* A single-threaded application: it registers filters of every shape, handles the
\* backend's events for both devices on its own thread, and never calls the library
\* from a callback.
FilterArg(events, flags, vendor_id, product_id, dev_class) ==
    [ctx |-> "NULL", events |-> events, flags |-> flags, vendor_id |-> vendor_id,
     product_id |-> product_id, dev_class |-> dev_class, cb_fn |-> TRUE,
     handle |-> TRUE]
FilterArgs ==
    {FilterArg(3, LIBUSB_HOTPLUG_ENUMERATE, LIBUSB_HOTPLUG_MATCH_ANY,
               LIBUSB_HOTPLUG_MATCH_ANY, LIBUSB_HOTPLUG_MATCH_ANY),
     FilterArg(3, LIBUSB_HOTPLUG_ENUMERATE, 7, LIBUSB_HOTPLUG_MATCH_ANY,
               LIBUSB_HOTPLUG_MATCH_ANY),
     FilterArg(1, LIBUSB_HOTPLUG_ENUMERATE, LIBUSB_HOTPLUG_MATCH_ANY, 2,
               LIBUSB_HOTPLUG_MATCH_ANY),
     FilterArg(3, 0, LIBUSB_HOTPLUG_MATCH_ANY, LIBUSB_HOTPLUG_MATCH_ANY, 1),
     FilterArg(2, LIBUSB_HOTPLUG_ENUMERATE, LIBUSB_HOTPLUG_MATCH_ANY,
               LIBUSB_HOTPLUG_MATCH_ANY, LIBUSB_HOTPLUG_MATCH_ANY),
     FilterArg(3, LIBUSB_HOTPLUG_ENUMERATE, 1, 1, 9)}

NextFilters ==
    \E t \in Applications :
        \/ \E a \in FilterArgs : Idle(t) /\ RegisterCall(t, a, TRUE)
        \/ RegisterLock(t)
        \/ RegisterAdd(t)
        \/ RegisterEnumLock(t)
        \/ RegisterReturn(t)
        \/ \E h \in 1..MaxEntries : Idle(t) /\ DeregisterCall(t, "NULL", h)
        \/ \E d \in Devices, e \in Events : MatchCall(t, d, e)
        \/ MatchLock(t)
        \/ MatchRelock(t)
        \/ MatchLeft(t)
        \/ \E r \in {0, 1} : CallbackReturn(t, r)

SpecFilters == Init /\ [][NextFilters]_vars

\* Register called with every kind of argument, calloc succeeding or failing.
ParamArgs ==
    {[ctx |-> "NULL", events |-> 3, flags |-> 0, vendor_id |-> v, product_id |-> p,
      dev_class |-> c, cb_fn |-> f, handle |-> h] :
        v \in {LIBUSB_HOTPLUG_MATCH_ANY, 65535, 65536, -2},
        p \in {LIBUSB_HOTPLUG_MATCH_ANY, 65535, 65536},
        c \in {LIBUSB_HOTPLUG_MATCH_ANY, 255, 256},
        f \in BOOLEAN, h \in BOOLEAN}

NextParams ==
    \E t \in Applications :
        \/ \E a \in ParamArgs, mem \in BOOLEAN : Idle(t) /\ RegisterCall(t, a, mem)
        \/ RegisterLock(t)
        \/ RegisterAdd(t)
        \/ RegisterReturn(t)

SpecParams == Init /\ [][NextParams]_vars

\* The application opens handles of the devices while the backend reports their
\* transitions on its own thread.
HandlesArgs ==
    {FilterArg(3, 0, LIBUSB_HOTPLUG_MATCH_ANY, LIBUSB_HOTPLUG_MATCH_ANY,
               LIBUSB_HOTPLUG_MATCH_ANY)}

NextHandles ==
    \E t \in Threads :
        \/ \E a \in HandlesArgs :
               t \in Applications /\ Idle(t) /\ RegisterCall(t, a, TRUE)
        \/ RegisterLock(t)
        \/ RegisterAdd(t)
        \/ RegisterReturn(t)
        \/ \E d \in Devices : AppCode(t) /\ Open(t, d)
        \/ \E d \in Devices, e \in Events : t \in Dispatchers /\ MatchCall(t, d, e)
        \/ MatchLock(t)
        \/ MatchRelock(t)
        \/ MatchLeft(t)
        \/ \E r \in {0, 1} : CallbackReturn(t, r)

SpecHandles == Init /\ [][NextHandles]_vars

\* Threads register and deregister on any of the contexts at the same time.
CtxArgs ==
    {[ctx |-> c, events |-> 3, flags |-> 0, vendor_id |-> LIBUSB_HOTPLUG_MATCH_ANY,
      product_id |-> LIBUSB_HOTPLUG_MATCH_ANY, dev_class |-> LIBUSB_HOTPLUG_MATCH_ANY,
      cb_fn |-> TRUE, handle |-> TRUE] : c \in {"NULL", "ctx2"}}

NextContexts ==
    \E t \in Threads :
        \/ \E a \in CtxArgs : Idle(t) /\ RegisterCall(t, a, TRUE)
        \/ RegisterLock(t)
        \/ RegisterAdd(t)
        \/ RegisterReturn(t)
        \/ \E c \in {"NULL", "ctx2"}, h \in 1..MaxEntries :
               Idle(t) /\ DeregisterCall(t, c, h)
        \/ DeregisterLock(t)

SpecContexts == Init /\ [][NextContexts]_vars

\* The backend delivers the transitions of two devices from two threads: each thread
\* runs the dispatch passes of its own device, and registers and deregisters between
\* its passes and from its callbacks.
PassArgs ==
    {FilterArg(3, 0, LIBUSB_HOTPLUG_MATCH_ANY, LIBUSB_HOTPLUG_MATCH_ANY,
               LIBUSB_HOTPLUG_MATCH_ANY)}
\* the device whose transitions thread t delivers
DeviceOf(t) == IF t = "ev" THEN "d1" ELSE "d2"

NextPasses ==
    \E t \in Threads :
        \/ \E a \in PassArgs : Idle(t) /\ RegisterCall(t, a, TRUE)
        \/ RegisterLock(t)
        \/ RegisterAdd(t)
        \/ RegisterReturn(t)
        \/ \E h \in 1..MaxEntries : AppCode(t) /\ DeregisterCall(t, "NULL", h)
        \/ DeregisterLock(t)
        \/ \E e \in Events : MatchCall(t, DeviceOf(t), e)
        \/ MatchLock(t)
        \/ MatchRelock(t)
        \/ MatchLeft(t)
        \/ \E r \in {0, 1} : CallbackReturn(t, r)

SpecPasses == Init /\ [][NextPasses]_vars

\* Every device arrives once: the backend thread reports the arrivals while the
\* application registers with the enumerate flag.
ArrivalArgs ==
    {FilterArg(1, LIBUSB_HOTPLUG_ENUMERATE, LIBUSB_HOTPLUG_MATCH_ANY,
               LIBUSB_HOTPLUG_MATCH_ANY, LIBUSB_HOTPLUG_MATCH_ANY)}

NextArrival ==
    \E t \in Threads :
        \/ \E a \in ArrivalArgs :
               t \in Applications /\ Idle(t) /\ RegisterCall(t, a, TRUE)
        \/ RegisterLock(t)
        \/ RegisterAdd(t)
        \/ RegisterEnumLock(t)
        \/ RegisterReturn(t)
        \/ \E d \in Devices :
               t \in Dispatchers /\ MatchCall(t, d, LIBUSB_HOTPLUG_EVENT_DEVICE_ARRIVED)
        \/ MatchLock(t)
        \/ MatchRelock(t)
        \/ MatchLeft(t)
        \/ \E r \in {0, 1} : CallbackReturn(t, r)

SpecArrival == Init /\ [][NextArrival]_vars

\* The order of the list: the application registers entries that accept everything,
\* from its thread and from callbacks, while the backend thread reports the
\* transitions of one device.
OrderArgs ==
    {FilterArg(3, 0, LIBUSB_HOTPLUG_MATCH_ANY, LIBUSB_HOTPLUG_MATCH_ANY,
               LIBUSB_HOTPLUG_MATCH_ANY)}

NextOrder ==
    \E t \in Threads :
        \/ \E a \in OrderArgs : AppCode(t) /\ RegisterCallUpTo(t, a, TRUE, MaxOrder)
        \/ RegisterLock(t)
        \/ RegisterAdd(t)
        \/ RegisterReturn(t)
        \/ \E e \in Events : t \in Dispatchers /\ MatchCall(t, "d1", e)
        \/ MatchLock(t)
        \/ MatchRelock(t)
        \/ MatchLeft(t)
        \/ \E r \in {0, 1} : CallbackReturn(t, r)

SpecOrder == Init /\ [][NextOrder]_vars

\* ================================================================ properties
FramesOf(op) == UNION {{stack[t][i] : i \in {j \in 1..Len(stack[t]) : stack[t][j].op = op}}
                       : t \in Threads}
\* how often the activation f has called the callback of entry e
Invocations(f, e) == Cardinality({k \in 1..Len(f.inv) : f.inv[k][1] = e})
\* the filter of an entry accepts (dev, event): the event is in the mask and every
\* field is ANY or the device's
FilterAccepts(hotplug_cb, dev, event) ==
    /\ (hotplug_cb.events \div event) % 2 = 1
    /\ hotplug_cb.vendor_id \in {LIBUSB_HOTPLUG_MATCH_ANY, device_descriptor(dev).idVendor}
    /\ hotplug_cb.product_id \in {LIBUSB_HOTPLUG_MATCH_ANY, device_descriptor(dev).idProduct}
    /\ hotplug_cb.dev_class \in {LIBUSB_HOTPLUG_MATCH_ANY, device_descriptor(dev).bDeviceClass}

\* C1: a dispatch pass that takes the registry lock after deregister(ctx, h) returned
\* never calls the callback of an entry that call named, and when the pass has walked
\* the registry every such entry is unlinked and freed.
C1_NoInvokeAfterDeregister ==
    \A f \in FramesOf("match") :
        /\ \A e \in f.pre : Invocations(f, e) = 0
        /\ f.pc = "left" =>
               \A e \in f.pre : e \in freed /\ ~InList(e, hotplug_cbs[f.ctx])
\* a pass has walked the registry, in which an entry was deregistered whose filter
\* accepts the pass's device and event
C1_Witness ==
    \E f \in FramesOf("match") :
        /\ f.pc = "left"
        /\ \E e \in f.pre : FilterAccepts(heap[e], f.dev, f.event)

\* C2: a dispatch pass that is called after a callback of an entry
\* returned non-zero, in a pass or in the replay of register, never calls that
\* entry's callback.
C2_NoInvokeAfterDetach ==
    \A f \in FramesOf("match") : \A e \in f.det : Invocations(f, e) = 0

\* C4: when a pass has walked the registry, every entry that was in the registry and
\* not deregistered when the pass took the lock, that no deregister call named since,
\* and whose filter accepts the device and the event, has been called exactly once;
\* no pass ever calls an entry twice.
C4_ExactlyOnce ==
    \A f \in FramesOf("match") :
        /\ \A e \in 1..Len(heap) : Invocations(f, e) <= 1
        /\ f.pc = "left" =>
               \A e \in SeqToSet(f.reg0) \ deregistered :
                   FilterAccepts(heap[e], f.dev, f.event) => Invocations(f, e) = 1
\* a pass has walked a registry of two entries that both accept the device and event
C4_Witness ==
    \E f \in FramesOf("match") :
        /\ f.pc = "left"
        /\ Len(f.inv) >= 2
        /\ \A e \in SeqToSet(f.reg0) : Invocations(f, e) = 1

\* C9: while a user callback runs, its thread holds neither the registry lock nor the
\* open-handle lock.
C9_NoLockInCallback ==
    \A t \in Threads : \A i \in 1..Len(stack[t]) :
        stack[t][i].pc \in {"cb", "enum_cb"} =>
            /\ lock[hotplug_cbs_lock(stack[t][i].ctx)] # t
            /\ lock[open_devs_lock(stack[t][i].ctx)] # t

\* C10: a register or deregister call made from inside a callback never waits for a
\* mutex its own thread holds.
C10_NestedCallCompletes ==
    \A t \in Threads :
        (Len(stack[t]) > 1 /\ Top(t).pc = "lock") =>
            lock[hotplug_cbs_lock(Top(t).ctx)] # t

RECURSIVE ReplayOf(_, _)
ReplayOf(e, devs) ==
    IF devs = <<>> THEN <<>>
    ELSE IF FilterAccepts(heap[e], devs[1], LIBUSB_HOTPLUG_EVENT_DEVICE_ARRIVED)
    THEN <<<<e, devs[1], LIBUSB_HOTPLUG_EVENT_DEVICE_ARRIVED>>>> \o ReplayOf(e, Tail(devs))
    ELSE ReplayOf(e, Tail(devs))

Returns(t) == stack'[t] = SubSeq(stack[t], 1, Len(stack[t]) - 1)
\* the liveness of every open handle is what it was
SameLiveness ==
    /\ Len(open_devs') >= Len(open_devs)
    /\ \A i \in 1..Len(open_devs) : open_devs'[i] = open_devs[i]

\* what a step of a dispatch may do to the open handles: the return of a dispatch of
\* LEFT disconnects the handles of its device, every other step changes none
C3_Step ==
    \A t \in Threads :
        (~Idle(t) /\ Top(t).op = "match" /\ stack'[t] # stack[t]) =>
            IF Top(t).pc = "left" /\ Top(t).event = LIBUSB_HOTPLUG_EVENT_DEVICE_LEFT
            THEN /\ Returns(t)
                 /\ Len(open_devs') = Len(open_devs)
                 /\ \A i \in 1..Len(open_devs) :
                        /\ open_devs'[i].dev = open_devs[i].dev
                        /\ open_devs[i].dev = Top(t).dev => open_devs'[i].disconnected
                        /\ open_devs[i].dev # Top(t).dev =>
                               open_devs'[i].disconnected = open_devs[i].disconnected
            ELSE SameLiveness
\* C3: the step in which usbi_hotplug_match(D, LEFT) returns leaves every open handle
\* of D disconnected (all of them) and every other handle as it was, whatever the
\* registry holds; every other step of a dispatch, and the return of a dispatch of
\* ARRIVED, changes no handle.
C3_DisconnectOnLeft == [][C3_Step]_vars
\* a LEFT dispatch has returned: two handles of one device are disconnected while the
\* device is gone, and a handle of the other device is live
C3_Witness ==
    \E i, j, k \in 1..Len(open_devs) :
        /\ i # j
        /\ open_devs[i].dev = open_devs[j].dev
        /\ open_devs[i].disconnected /\ open_devs[j].disconnected
        /\ open_devs[k].dev # open_devs[i].dev /\ ~open_devs[k].disconnected
        /\ Idle("ev")

\* the arguments the interface rejects: no callback, or a field that is not ANY and
\* outside its domain
OutOfDomain(a) ==
    \/ ~a.cb_fn
    \/ a.vendor_id # LIBUSB_HOTPLUG_MATCH_ANY /\ a.vendor_id \notin 0..65535
    \/ a.product_id # LIBUSB_HOTPLUG_MATCH_ANY /\ a.product_id \notin 0..65535
    \/ a.dev_class # LIBUSB_HOTPLUG_MATCH_ANY /\ a.dev_class \notin 0..255
\* the activation f is register about to return an error, having created no entry
Rejected(f, code) == f.pc = "ret" /\ f.code = code /\ f.cur = 0

\* C7 as stated: rejected arguments always yield INVALID_PARAM, an absent capability
\* always NOT_SUPPORTED, and acceptable arguments with the capability never
\* INVALID_PARAM.
C7_Original ==
    \A f \in FramesOf("register") :
        f.pc = "ret" =>
            /\ OutOfDomain(f.args) => Rejected(f, "LIBUSB_ERROR_INVALID_PARAM")
            /\ ~has_hotplug => Rejected(f, "LIBUSB_ERROR_NOT_SUPPORTED")
            /\ (has_hotplug /\ ~OutOfDomain(f.args)) =>
                   f.code # "LIBUSB_ERROR_INVALID_PARAM"
\* the registry and the objects are what they were
RegistryUnchanged == hotplug_cbs' = hotplug_cbs /\ heap' = heap /\ handle_id' = handle_id
\* the step in which register fails with INVALID_PARAM or NOT_SUPPORTED creates no
\* entry and changes nothing of the registry
C7_Step ==
    \A t \in Threads :
        (~Idle(t)' /\ Top(t)' \notin SeqToSet(stack[t]) /\ Top(t)'.op = "register"
            /\ Top(t)'.pc = "ret"
            /\ Top(t)'.code \in {"LIBUSB_ERROR_INVALID_PARAM", "LIBUSB_ERROR_NOT_SUPPORTED"})
        => (RegistryUnchanged /\ Top(t)'.cur = 0 /\ Len(stack'[t]) = Len(stack[t]) + 1)
\* C7, amended: with the capability present, rejected arguments yield INVALID_PARAM;
\* with it absent, every call yields NOT_SUPPORTED, whatever its arguments; with it
\* present and acceptable arguments the result is never INVALID_PARAM.  A call that
\* returns either error has created no entry and changes nothing of the registry.
C7_RegisterErrors ==
    /\ [](\A f \in FramesOf("register") :
            f.pc = "ret" =>
                /\ (has_hotplug /\ OutOfDomain(f.args)) =>
                       Rejected(f, "LIBUSB_ERROR_INVALID_PARAM")
                /\ ~has_hotplug => Rejected(f, "LIBUSB_ERROR_NOT_SUPPORTED")
                /\ (has_hotplug /\ ~OutOfDomain(f.args)) =>
                       f.code \in {"LIBUSB_SUCCESS", "LIBUSB_ERROR_NO_MEM"})
    /\ [][C7_Step]_vars
\* register is about to return INVALID_PARAM for a vendor id of 17 bits, an entry
\* being registered already
C7_Witness ==
    /\ has_hotplug
    /\ hotplug_cbs[usbi_default_context] # <<>>
    /\ \E f \in FramesOf("register") :
           /\ Rejected(f, "LIBUSB_ERROR_INVALID_PARAM")
           /\ f.args.vendor_id = 65536 /\ f.args.cb_fn
           /\ f.args.product_id = LIBUSB_HOTPLUG_MATCH_ANY
           /\ f.args.dev_class = LIBUSB_HOTPLUG_MATCH_ANY

\* the handles registrations have received, in any context
Issued == {e \in 1..Len(heap) : heap[e].handle # 0 \/ InList(e, hotplug_cbs[heap[e].ctx])}
\* C8: no two registrations receive the same handle id, every id is positive, and
\* the ids come from one counter that starts at 1 and only grows, so that every id
\* handed out is below the counter.
C8_HandlesUnique ==
    /\ \A e1, e2 \in Issued : e1 # e2 => heap[e1].handle # heap[e2].handle
    /\ \A e \in Issued : heap[e].handle >= 1 /\ heap[e].handle < handle_id
    /\ handle_id >= 1

\* the activations that are inside the callback of entry e
InFlight(e) ==
    {<<t, i>> \in Threads \X (1..MaxDepth) :
        i <= Len(stack[t]) /\ stack[t][i].pc \in {"cb", "enum_cb"} /\ stack[t][i].cur = e}
\* C11: once a deregister call naming an entry has returned, at most one invocation of
\* the entry's callback is still running, counted over all threads; as none starts
\* afterwards, at most one completes.
C11_OneInFlight ==
    \A e \in deregistered : Cardinality(InFlight(e)) <= 1

\* C19: with two passes running at the same time, no pass runs the matcher on, or
\* unlinks and frees, an entry that is freed already: no pass reaches "uaf".
C19_NoUseAfterFree ==
    \A f \in FramesOf("match") : f.pc # "uaf"

\* C12: where every device arrives once, the replay of a register call and a dispatch
\* pass never both call the same entry for the same device with ARRIVED.
C12_NoDuplicateArrival ==
    \A r \in FramesOf("register") : \A f \in FramesOf("match") :
        \A k \in 1..Len(r.inv) : \A j \in 1..Len(f.inv) : f.inv[j] # r.inv[k]

\* C13: once the new entry's callback has returned non-zero in the replay of register,
\* the replay calls it for no further device, and when register is about to return
\* the entry is marked needs_free or is no longer in the registry.
C13_ReplayDetachImmediate ==
    \A f \in FramesOf("register") :
        /\ f.pc = "enum_cb" => f.cur \notin detached
        /\ (f.pc = "ret" /\ f.cur \in detached) =>
               (heap[f.cur].needs_free # 0 \/ ~InList(f.cur, hotplug_cbs[f.ctx]))

C15_SafeIteration ==
    \A f \in FramesOf("match") :
        /\ f.pc # "uaf"
        /\ f.pc \in {"cb", "relock"} =>
               /\ f.cur \notin freed /\ InList(f.cur, hotplug_cbs[f.ctx])
               /\ f.next = 0 \/
                      (f.next \notin freed /\ InList(f.next, hotplug_cbs[f.ctx]))
        /\ \A i, j \in 1..Len(f.vis) : i # j => f.vis[i] # f.vis[j]
\* a pass has ended that freed its second entry, which was deregistered after the pass
\* took the lock and had pre-fetched it
C15_Witness ==
    \E f \in FramesOf("match") :
        /\ f.pc = "left" /\ Len(f.vis) = 2
        /\ f.vis[2] \in (deregistered \ f.pre) \cap freed

\* the mutexes thread t owns
Held(t) == {l \in Locks : lock[l] = t}
\* thread t takes mutex l in this step
Acquires(t, l) == lock[l] # t /\ lock'[l] = t
\* the order in which mutexes are taken and released
C16_Step ==
    \A t \in Threads : \A c \in Contexts :
        /\ Acquires(t, hotplug_cbs_lock(c)) => Held(t) = {}
        /\ Acquires(t, usb_devs_lock(c)) => Held(t) = {hotplug_cbs_lock(c)}
        /\ Acquires(t, open_devs_lock(c)) => Held(t) = {}
        /\ (lock[hotplug_cbs_lock(c)] = t /\ lock'[hotplug_cbs_lock(c)] # t) =>
               lock'[usb_devs_lock(c)] # t
C17_Step ==
    /\ \A e \in 1..Len(heap) :
           \/ heap'[e].needs_free = heap[e].needs_free
           \/ /\ heap[e].needs_free = 0
              /\ heap'[e] = [heap[e] EXCEPT !.needs_free = 1]
              /\ has_hotplug
              /\ e \in deregistered'
              /\ InList(e, hotplug_cbs[heap[e].ctx])
              /\ hotplug_cbs' = hotplug_cbs /\ freed' = freed
              /\ \A o \in 1..Len(heap) : o \notin deregistered' => heap'[o] = heap[o]
    /\ \A t \in Threads :
           (~Idle(t) /\ Top(t).op = "match" /\ Len(stack'[t]) = Len(stack[t])) =>
               /\ (Len(Top(t)'.vis) > Len(Top(t).vis)
                      /\ heap[Top(t)'.cur].needs_free # 0) =>
                      /\ Top(t)'.pc = "relock" /\ Top(t)'.ret = 1
                      /\ Top(t)'.inv = Top(t).inv
               /\ (Top(t).pc = "relock" /\ Top(t).ret # 0 /\ stack'[t] # stack[t]) =>
                      /\ Top(t).cur \in freed'
                      /\ ~InList(Top(t).cur, hotplug_cbs'[Top(t).ctx])
\* C17: deregister only sets needs_free of the entries of the context that carry the
\* handle, with the capability present: they stay linked, the list, the freed objects
\* and every other entry are unchanged, and needs_free is never reset.  A pass that
\* reaches a marked entry gets 1 from the matcher without a call of the callback,
\* whatever the device and event, and then unlinks and frees it.
C17_DeferredReclamation == [][C17_Step]_vars
\* a pass has reached a marked entry whose filter rejects the pass's device and event,
\* and is about to unlink and free it
C17_Witness ==
    \E f \in FramesOf("match") :
        /\ f.pc = "relock" /\ f.ret = 1
        /\ heap[f.cur].needs_free # 0 /\ InList(f.cur, hotplug_cbs[f.ctx])
        /\ ~FilterAccepts(heap[f.cur], f.dev, f.event)
        /\ Len(hotplug_cbs[f.ctx]) = 2

\* the step that marks a handle disconnected
C18_Step ==
    (\E i \in 1..Len(open_devs) :
        i <= Len(open_devs') /\ ~open_devs[i].disconnected /\ open_devs'[i].disconnected)
    => \E t \in Threads :
           /\ ~Idle(t) /\ Top(t).op = "match" /\ Top(t).pc = "left"
           /\ Top(t).event = LIBUSB_HOTPLUG_EVENT_DEVICE_LEFT
           /\ Returns(t)
           /\ lock[hotplug_cbs_lock(Top(t).ctx)] # t
           /\ \A i \in 1..Len(open_devs) :
                  open_devs'[i].disconnected # open_devs[i].disconnected =>
                      open_devs[i].dev = Top(t).dev
\* C18: a handle is marked disconnected only in the last step of a dispatch of LEFT
\* for its device, when the pass has left the registry loop (every callback it
\* called has returned) and does not own the registry lock; so the callbacks of that
\* pass run before any handle is marked.
C18_DisconnectAfterPass == [][C18_Step]_vars
\* a callback called for LEFT runs while a handle of the device is open and not
\* disconnected
C18_Witness ==
    \E f \in FramesOf("match") :
        /\ f.pc = "cb" /\ f.event = LIBUSB_HOTPLUG_EVENT_DEVICE_LEFT
        /\ \E i \in 1..Len(open_devs) :
               open_devs[i].dev = f.dev /\ ~open_devs[i].disconnected
====
